---- MODULE Spec2Model ----
(***************************************************************************)
(* ModioDirect: the resolve -> select -> fetch -> record -> install        *)
(* pipeline of src/ModioDirect.py, as a state machine.                     *)
(*                                                                         *)
(* State: the backend's latest file of each mod, the file system (the      *)
(* download directory and the temporary download directory of the item     *)
(* being processed), the persisted cache document, the in-memory cache of  *)
(* the running process, and the position and locals of main(),             *)
(* process_single_mod() and download_file().                               *)
(*                                                                         *)
(* Spec is the interactive session on a sound cache file; SpecBatch adds   *)
(* batch mode and SpecDamaged a damaged cache file. A resolve call,        *)
(* select_latest_file and install_mod are also modelled on their own, in   *)
(* SpecResolve, SpecSelect and SpecInstall, and so are the scans of the    *)
(* full-text searches and extract_download_info, in SpecSearch and         *)
(* SpecDownloadInfo.                                                       *)
(***************************************************************************)
EXTENDS Integers, Sequences, FiniteSets, TLC

\* ---------------------------------------------------------------- bounds
MaxVersion == 2      \* file versions a mod publishes
MaxSize == 2         \* file sizes are 1..MaxSize (a broken stream leaves less)
MaxFiles == 3        \* files in the list select_latest_file is given
MaxDate == 2         \* date_added is a Unix time, here 0..MaxDate
MaxCalls == 2        \* install_mod calls in succession on one archive and target
MaxBatch == 2        \* lines of a batch file
MaxItems == 2        \* items in the list a full-text search answers with
MaxUrl == 3          \* characters of a download URL, from its path on

\* ----------------------------------------------------------- the domains
None == -1           \* Python's None where an integer may stand
NoPath == <<>>       \* no path: None or "" (a failed download, an install skip)

Mods == {1}
Sizes == 1..MaxSize
FileNames == {"a.zip", "b.zip"}
FirstName == "a.zip" \* the names are interchangeable: the first file published bears this one
TargetDirs == {1}    \* install targets supplied by detect_mod_folders

\* os.path.join(DOWNLOAD_DIR, filename)
DownloadPath(filename) == <<"downloads", filename>>

\* os.path.join(tempfile.mkdtemp(prefix="modiodirect_"), filename)
TempPath(filename) == <<"modiodirect_", filename>>

\* mutant of MaxAttempts: range(1, 4)
MaxAttemptsThree == 2 + 1

\* range(1, 3): the attempts of one download_file call
MaxAttempts == 2

VARIABLES
    backend,     \* mod -> its latest file: [id, filename, filesize]
    fs,          \* path -> file content [mod, ver, size, complete]; DOMAIN = existing files
    disk,        \* the persisted cache document: "mods" as mod id -> entry
    cache,       \* the in-memory cache of the running process
    pc,          \* position of the process
    item,        \* arguments of process_single_mod: [mod, install, force]
    latest,      \* latest_file as resolved for this item: [id, filename, filesize]
    entry,       \* process_single_mod's local `entry` (<<>> when there is none)
    dl,          \* download_file's locals and result
    ret,         \* what process_single_mod returns: [ok, path, skipped, install_skip]
    hist,        \* history: whether --force was ever passed, per mod the downloads
                 \* completed of its latest version (capped at 2) while it never was,
                 \* whether the last backend response of the running process was
                 \* a 401, and what install_mod returned when it was the last
                 \* thing to run ("none" otherwise)
    batch,       \* the batch in progress, if any: its URLs, the index of the URL
                 \* the loop is at, the flags, the install target chosen up front,
                 \* and the indexes process_single_mod was called for
    doc,         \* the shape of the cache document as stored and as loaded:
                 \* [disk, cache], each "sound" or one of the ways it is damaged
    sel,         \* select_latest_file on its own: [files, called, latest]
    rs,          \* a resolve call on its own: the function about to send a request,
                 \* the responses received so far, and the result
    inst,        \* install_mod on its own: the archive, the target directory, the
                 \* call's position and extraction directory, and what the calls
                 \* so far returned and extracted
    srch,        \* the scan of a full-text search on its own: the slug looked for,
                 \* the items of the response, the function applied and its id
    info         \* extract_download_info on its own: [file_obj, called, out]

vars == <<backend, fs, disk, cache, pc, item, latest, entry, dl, ret, hist, batch, doc,
          sel, rs, inst, srch, info>>

\* the state of the pipeline: the functions modelled on their own leave it alone
pipeline == <<backend, fs, disk, cache, pc, item, latest, entry, dl, ret, hist, batch, doc>>

\* the state of the functions modelled on their own: the pipeline leaves it alone
aside == <<sel, rs, inst, srch, info>>

\* the state of the pure functions modelled on their own
pure == <<srch, info>>

NoEntry == <<>>

\* a line of a batch file that parse_modio_url rejects
InvalidUrl == 0

\* load_batch_urls: the lines of the file that are neither blank nor comments, each
\* the URL of a mod or no mod.io URL at all
BatchLists == UNION {[1..n -> Mods \cup {InvalidUrl}] : n \in 1..MaxBatch}

NoBatch == [active |-> FALSE, urls |-> <<>>, next |-> 0, install |-> FALSE, force |-> FALSE,
            target |-> None, done |-> <<>>]
NoItem == [mod |-> None, install |-> FALSE, force |-> FALSE]
NoLatest == [id |-> None, filename |-> "", filesize |-> None]
NoRet == [ok |-> FALSE, path |-> NoPath, skipped |-> FALSE, install_skip |-> FALSE]
NoDl == [called |-> FALSE, target |-> NoPath, allow_existing |-> FALSE, expected_size |-> None,
         attempt |-> 0, requests |-> 0, fails |-> <<>>,
         ok |-> FALSE, skipped |-> FALSE, path |-> NoPath]

\* ------------------------------------------------------------ file system
isfile(path) == path \in DOMAIN fs

getsize(path) == fs[path].size

\* mutant of Remove: the file is left where it is
RemoveNothing(f, path) == f

\* os.remove(path) on a file system f
Remove(f, path) == [p \in (DOMAIN f) \ {path} |-> f[p]]

\* open(path, "wb") followed by writes: the file holds `content`
WriteFile(f, path, content) == [p \in (DOMAIN f) \cup {path} |-> IF p = path THEN content ELSE f[p]]

\* shutil.rmtree of the item's temporary directory
RemoveTempDir(f) == [p \in {q \in DOMAIN f : q[1] # "modiodirect_"} |-> f[p]]

\* tempfile.mkdtemp: a fresh, empty directory
Mkdtemp(f) == RemoveTempDir(f)

\* The file system as the next item can see it. Every item gets a temporary
\* directory of its own, so what an earlier item left in its directory (a leak)
\* stays on the real disk under a path that no later step names: the state keeps
\* only the files that can still be read.
OutOfReach(f) == RemoveTempDir(f)

\* os.path.isdir(installed_path)
isdir(path) == path \in TargetDirs

\* ------------------------------------------------------------- the cache
\* load_cache(): the persisted document, or {"mods": {}} when there is none
load_cache(document) == document

\* What the cache file can hold. "sound": an object whose "mods", if any, maps mod
\* ids to entry objects. "unreadable": a file that cannot be read, is no JSON, or is
\* no JSON object. "mods": an object whose "mods" is no object (a list, a string,
\* null). "entry": an object in whose "mods" the mod's id maps to a value that is
\* no object and is truthy (a string, a number, a list). The functions disk and
\* cache hold the entries of a document that are objects.
Shapes == {"sound", "unreadable", "mods", "entry"}

\* lines 70-79: load_cache returns what it read when that is a dict, whatever is in
\* it, and {"mods": {}} otherwise
LoadedShape(shape) == IF shape = "unreadable" THEN "sound" ELSE shape

SoundDoc == [disk |-> "sound", cache |-> "sound"]

\* mutant of save_cache: the document is opened for writing and nothing is written
save_cache_truncated(c) == [m \in {} |-> <<>>]

\* save_cache(cache): the whole in-memory cache rewrites the document
save_cache(c) == c

EmptyCache == [m \in {} |-> NoEntry]

\* cache_mods.get(str(mod_id))
CacheGet(c, m) == IF m \in DOMAIN c THEN c[m] ELSE NoEntry

\* mutant of CachePut: the record is the only entry of the new "mods"
CachePutAlone(c, m, e) == [k \in {m} |-> e]

\* lines 1126-1127, 1255-1259, 1290-1294: cache["mods"][str(mod_id)] = entry
CachePut(c, m, e) == [k \in (DOMAIN c) \cup {m} |-> IF k = m THEN e ELSE c[k]]

\* entry.get(field) of a possibly missing entry
EntryGet(e, field) == IF e = NoEntry THEN None ELSE e[field]

\* ------------------------------------------------- process_single_mod
\* expected_size is None or os.path.getsize(existing_path) == expected_size
SizeOk(path, expected_size) == expected_size = None \/ getsize(path) = expected_size

\* line 1058: the cache entry records the resolved latest version, and no --force
CacheHit(e, latest_version_id, force_requested) ==
    /\ e # NoEntry
    /\ e.latest_version_id = latest_version_id
    /\ ~force_requested

\* mutant of InstallUpToDate: the recorded install is never taken as up to date
InstallUpToDateNever(e, latest_version_id) == FALSE

\* lines 1059-1062: the entry also records this version as installed to a directory
\* that still exists
InstallUpToDate(e, latest_version_id) ==
    /\ e.installed_version_id = latest_version_id
    /\ e.installed_path # None
    /\ isdir(e.installed_path)

\* mutant of FetchEntry: the fetch fields are merged into the old entry
FetchEntryMerged(old, file) ==
    [latest_version_id |-> file.id, file_name |-> file.filename, file_size |-> file.filesize,
     installed_version_id |-> IF old = <<>> THEN None ELSE old.installed_version_id,
     installed_path |-> IF old = <<>> THEN None ELSE old.installed_path]

\* lines 1127-1135: the entry recorded after a successful fetch; the dict literal
\* replaces the entry `old` whole (mod_id, mod_name, latest_version_number and
\* download_date are recorded too and read by nothing)
FetchEntry(old, file) ==
    [latest_version_id |-> file.id, file_name |-> file.filename, file_size |-> file.filesize,
     installed_version_id |-> None, installed_path |-> None]

\* lines 1256-1259 and 1291-1294: the entry after a successful install_mod
InstallEntry(old, target) ==
    [latest_version_id |-> EntryGet(old, "latest_version_id"),
     file_name |-> IF old = NoEntry THEN "" ELSE old.file_name,
     file_size |-> EntryGet(old, "file_size"),
     installed_version_id |-> EntryGet(old, "latest_version_id"),
     installed_path |-> target]

\* install_mod(zip_path, target_path, force): the results it can return. It fails
\* when the archive is no file; otherwise the guard, the extraction and the copy
\* decide.
install_mod(zip_path, target_path, force) ==
    IF zip_path = NoPath \/ ~isfile(zip_path) THEN {FALSE} ELSE {TRUE, FALSE}

\* cleanup_temp_file(path): removes the file, and its directory when that is a
\* modiodirect_ temporary directory
cleanup_temp_file(f, path) ==
    IF path = NoPath THEN f
    ELSE IF path[1] = "modiodirect_" THEN RemoveTempDir(f)
    ELSE Remove(f, path)

\* ------------------------------------------------------------ install_mod
\* The top-level names an archive or a target directory can hold: the archive's own
\* base name (os.path.splitext(os.path.basename(zip_path))[0]) and another name
BaseName == "a"

Names == {BaseName, "x"}

\* the contents of a directory or an archive: name -> what the name is (a file, a
\* directory with content, an empty directory)
Contents == UNION {[S -> {"file", "dir", "emptydir"}] : S \in SUBSET Names}

NoContents == [n \in {} |-> "file"]

\* isfile: zip_path names an existing file; isdir: target_path names an existing
\* directory (lines 953, 959)
NoInst == [at |-> "idle", archive |-> [isfile |-> TRUE, zip |-> TRUE, entries |-> NoContents],
           isdir |-> TRUE, target |-> NoContents, force |-> FALSE, tmp |-> "none",
           forced |-> FALSE, results |-> <<>>, work |-> <<>>]

\* mutant of UpToDateDir: force is not looked at
UpToDateDirForcedOrNot(target, force) ==
    /\ BaseName \in DOMAIN target
    /\ target[BaseName] = "dir"

\* line 966: os.path.isdir(existing_dir) and os.listdir(existing_dir) and not force
UpToDateDir(target, force) ==
    /\ BaseName \in DOMAIN target
    /\ target[BaseName] = "dir"
    /\ ~force

\* lines 977-980: shutil.copytree(src, dst, dirs_exist_ok=True) raises when dst is a
\* file; shutil.copy2 into a directory puts the file inside it
Copyable(target, n, kind) == ~(kind # "file" /\ n \in DOMAIN target /\ target[n] = "file")

CopyOne(target, n, kind) ==
    IF kind = "dir" THEN "dir"
    ELSE IF n \notin DOMAIN target THEN kind
    ELSE IF kind = "file" THEN (IF target[n] = "file" THEN "file" ELSE "dir")
    ELSE target[n]

\* lines 974-980: the entries `names` of the extraction are copied into the target
CopyInto(target, entries, names) ==
    [n \in (DOMAIN target) \cup names |->
        IF n \in names THEN CopyOne(target, n, entries[n]) ELSE target[n]]

\* install_mod returns `result` after `work` extractions
InstallReturns(i, result, work) ==
    [i EXCEPT !.at = "returned", !.results = Append(@, result), !.work = Append(@, work)]

\* ------------------------------------------------------------ resolvers
\* What the backend answers to one request of a resolver: no response at all
\* (safe_request returns None), a status, or a 200 whose body is no JSON object
\* ("invalid"), holds an empty list ("empty"), holds items none of which is usable
\* or matches ("malformed"), or holds the id looked for ("found").
Responses == {"none", "401", "429", "404", "500", "invalid", "empty", "malformed", "found"}

\* the error message a resolver returns for a response that is no success
ErrOf(resp) ==
    CASE resp = "none" -> "network"
      [] resp = "401" -> "unauthorized"
      [] resp = "429" -> "rate_limited"
      [] resp \in {"404", "500"} -> "api_error"
      [] resp = "invalid" -> "invalid_response"
      [] resp = "empty" -> "not_found"
      [] resp = "malformed" -> "not_found"
      [] OTHER -> ""

\* The mod slug as resolve_mod_id_numeric reads it (lines 502-504): "name" when
\* mod_slug.isdigit() is false, "decimal" when it is true and int(mod_slug) is a
\* number, "digit" when it is true and int(mod_slug) raises ValueError: a slug of
\* digit characters that are no decimal digits, such as the superscript two, which
\* URL_REGEX (line 40) lets through.
SlugKinds == {"name", "decimal", "digit"}

NoRs ==
    [at |-> "idle", call |-> "", slug |-> "name", log |-> <<>>, search_err |-> "",
     id |-> None, err |-> ""]

\* the request of the function at r.at was answered by resp
Answered(r, resp) == [r EXCEPT !.log = Append(@, resp)]

\* the resolve call returns (id, err) to process_single_mod
Returns(r, id, err) == [r EXCEPT !.at = "done", !.id = id, !.err = err]

\* line 504: int(mod_slug) raises; no resolver and no caller up to line 1322 catches
Raises(r) == [r EXCEPT !.at = "raised"]

\* a function that sends one request and returns its id or its error
OneRequest(r, resp) ==
    IF resp = "found" THEN Returns(Answered(r, resp), 1, "")
    ELSE Returns(Answered(r, resp), None, ErrOf(resp))

\* ----------------------------------------------------- select_latest_file
\* A file object of the backend's list, as far as select_latest_file reads it: its
\* place in the list (its identity) and its date_added, None when that is no int.
\* Elements that are no dict are skipped by line 621 and are left out.
FileLists ==
    UNION {[1..n -> [date_added : (0..MaxDate) \cup {None}]] : n \in 0..MaxFiles}

NoFile == <<>>

\* the list with every file carrying its place as id
Numbered(dates) == [i \in DOMAIN dates |-> [id |-> i, date_added |-> dates[i].date_added]]

\* mutant of NewerThan: a file as new as the latest one replaces it
NotOlderThan(date_added, latest_date) == date_added # None /\ date_added >= latest_date

\* line 624: isinstance(date_added, int) and date_added > latest_date
NewerThan(date_added, latest_date) == date_added # None /\ date_added > latest_date

\* lines 620-626: the loop over files[i..], with the locals latest and latest_date
RECURSIVE SelectFrom(_, _, _, _)
SelectFrom(files, i, latest_so_far, latest_date) ==
    IF i > Len(files) THEN latest_so_far
    ELSE IF NewerThan(files[i].date_added, latest_date)
         THEN SelectFrom(files, i + 1, files[i], files[i].date_added)
         ELSE SelectFrom(files, i + 1, latest_so_far, latest_date)

\* mutant of select_latest_file: the first file is the latest until a newer one is met
select_latest_or_first(files) ==
    IF Len(files) = 0 THEN NoFile
    ELSE SelectFrom(files, 2, files[1],
                    IF files[1].date_added = None THEN -1 ELSE files[1].date_added)

\* select_latest_file(files)
select_latest_file(files) ==
    IF Len(files) = 0 THEN NoFile ELSE SelectFrom(files, 1, NoFile, -1)

NoSel == [files |-> <<>>, called |-> FALSE, latest |-> NoFile]

\* ------------------------------------------------ the full-text searches
\* the game_id argument of resolve_mod_id_global_search
GameId == 1

\* a field that is missing or no str; it compares as the empty string does, equal
\* to no slug
NoStr == ""

\* the slug looked for, as the URL spells it
InputSlugs == {"abc", "Abc"}

\* str.lower() on the strings of the model
lower(s) == IF s = "Abc" THEN "abc" ELSE s

\* An item of the "data" list of a search response, as far as the scans read it:
\* whether "id" is an int, "game_id" (None when it is no int), "name_id" and
\* "slug". Items that are no dict are skipped by each scan and are left out.
ItemShapes ==
    [has_id : BOOLEAN, game_id : {None, GameId, GameId + 1},
     name_id : {NoStr, "Abc", "xyz"}, slug : {NoStr, "abc"}]

SearchLists == UNION {[1..n -> ItemShapes] : n \in 0..MaxItems}

\* the list with every item that has an id carrying its place as id
NumberedItems(shapes) ==
    [i \in DOMAIN shapes |->
        [id |-> IF shapes[i].has_id THEN i ELSE None, game_id |-> shapes[i].game_id,
         name_id |-> shapes[i].name_id, slug |-> shapes[i].slug]]

\* mutant of match_slug: the strings are compared as they are written
match_slug_exact(elem, slug) == elem.name_id = slug \/ elem.slug = slug

\* lines 358-367: match_slug(item, slug)
match_slug(elem, slug) ==
    \/ elem.name_id # NoStr /\ lower(elem.name_id) = lower(slug)
    \/ elem.slug # NoStr /\ lower(elem.slug) = lower(slug)

\* lines 389-393 and 545-549: the loop over items[i..] of fallback_search_game_id
\* and of fallback_search_mod_id
RECURSIVE FallbackSearchFrom(_, _, _)
FallbackSearchFrom(items, i, slug) ==
    IF i > Len(items) THEN None
    ELSE IF match_slug(items[i], slug) /\ items[i].id # None THEN items[i].id
    ELSE FallbackSearchFrom(items, i + 1, slug)

\* fallback_search_game_id, from the items of its response on
fallback_search_game_id(items, game_slug) == FallbackSearchFrom(items, 1, game_slug)

\* fallback_search_mod_id, from the items of its response on
fallback_search_mod_id(items, mod_slug) == FallbackSearchFrom(items, 1, mod_slug)

\* lines 488-497: the loop over items[i..] of resolve_mod_id_global_search; line 492
\* passes over the items whose game_id is an int other than game_id
RECURSIVE GlobalSearchFrom(_, _, _, _)
GlobalSearchFrom(items, i, game_id, mod_slug) ==
    IF i > Len(items) THEN None
    ELSE IF items[i].game_id # None /\ items[i].game_id # game_id
         THEN GlobalSearchFrom(items, i + 1, game_id, mod_slug)
    ELSE IF match_slug(items[i], mod_slug) /\ items[i].id # None THEN items[i].id
    ELSE GlobalSearchFrom(items, i + 1, game_id, mod_slug)

\* resolve_mod_id_global_search, from the items of its response on
resolve_mod_id_global_search(items, game_id, mod_slug) ==
    GlobalSearchFrom(items, 1, game_id, mod_slug)

NoSrch == [fn |-> "", slug |-> "abc", items |-> <<>>, called |-> FALSE, id |-> None]

\* -------------------------------------------------- extract_download_info
\* A str is a sequence of characters; an escaped slash and a percent-encoded
\* character each count as one. A URL is taken from its path on, as
\* urlparse(binary_url).path gives it, without parameters, query or fragment.
UrlChars == {"\\/", "/", "a", "%41"}

\* Python's None, or any value that is no str, where a str may stand
NoText == <<"None">>

\* a str of white space
BlankText == <<" ">>

Urls == {BlankText} \cup UNION {[1..n -> UrlChars] : n \in 0..MaxUrl}

\* the "filename" of a file object: missing, blank, a name, an absolute path, or a
\* path with a directory component
DeclaredNames == {NoText, BlankText, <<"f">>, <<"/", "f">>, <<"d", "/", "f">>}

\* a file object as extract_download_info reads it: whether "download" is a dict,
\* its "binary_url", and "filename"
FileObjects == [download : BOOLEAN, binary_url : Urls \cup {NoText}, filename : DeclaredNames]

\* lines 637, 641: not isinstance(value, str) or not value.strip()
NoUsableText(t) == t = NoText \/ \A i \in DOMAIN t : t[i] = " "

\* mutant of Unescape: the URL is returned as the backend wrote it
KeepEscapes(url) == url

\* line 639: binary_url.replace("\\/", "/")
Unescape(url) == [i \in DOMAIN url |-> IF url[i] = "\\/" THEN "/" ELSE url[i]]

\* line 645: os.path.basename(path), what follows the last slash
basename(path) ==
    LET slashes == {i \in DOMAIN path : path[i] = "/"}
        last == IF slashes = {} THEN 0 ELSE CHOOSE i \in slashes : \A j \in slashes : j <= i
    IN SubSeq(path, last + 1, Len(path))

\* line 646: unquote(basename)
unquote(t) == [i \in DOMAIN t |-> IF t[i] = "%41" THEN "A" ELSE t[i]]

\* lines 646, 648: "modfile.bin"
Placeholder == <<"modfile.bin">>

NoOut == [url |-> NoText, filename |-> NoText]

\* lines 630-649: extract_download_info(file_obj)
extract_download_info(file_obj) ==
    IF ~file_obj.download \/ NoUsableText(file_obj.binary_url) THEN NoOut
    ELSE LET binary_url == Unescape(file_obj.binary_url)
         IN [url |-> binary_url,
             filename |-> IF ~NoUsableText(file_obj.filename) THEN file_obj.filename
                          ELSE IF basename(binary_url) # <<>>
                               THEN unquote(basename(binary_url))
                               ELSE Placeholder]

\* lines 657-660: the path download_file opens for writing (line 702) and removes
\* (lines 667, 730): the filename itself when os.path.isabs(filename) or
\* os.path.dirname(filename) holds (line 657), else os.path.join(DOWNLOAD_DIR, filename)
download_target(filename) ==
    IF \E i \in DOMAIN filename : filename[i] = "/"
    THEN filename
    ELSE <<"downloads", "/">> \o filename

NoInfo ==
    [file_obj |-> [download |-> FALSE, binary_url |-> NoText, filename |-> NoText],
     called |-> FALSE, out |-> NoOut, target |-> NoText]

InitPipeline ==
    /\ backend \in [Mods -> [id : {1}, filename : {FirstName}, filesize : Sizes \cup {None}]]
    /\ fs = [p \in {} |-> None]
    /\ disk = EmptyCache
    /\ cache = EmptyCache
    /\ pc = "idle"
    /\ item = NoItem
    /\ latest = NoLatest
    /\ entry = NoEntry
    /\ dl = NoDl
    /\ ret = NoRet
    /\ hist = [force |-> FALSE, fetched |-> [m \in Mods |-> 0], unauthorized |-> FALSE,
               installed |-> "none"]
    /\ batch = NoBatch
    /\ doc \in [disk : Shapes, cache : {"sound"}]

\* main() is about to start: nothing was downloaded and there is no cache file
Init ==
    /\ InitPipeline
    /\ doc = SoundDoc
    /\ sel = NoSel
    /\ rs = NoRs
    /\ srch = NoSrch
    /\ info = NoInfo
    /\ inst = NoInst

\* The mod's author publishes a new file: it becomes the latest one.
Publish(m) ==
    /\ pc \in {"idle", "prompt"}
    /\ backend[m].id < MaxVersion
    /\ \E name \in FileNames, size \in Sizes \cup {None} :
         backend' = [backend EXCEPT ![m] = [id |-> backend[m].id + 1, filename |-> name, filesize |-> size]]
    /\ hist' = [hist EXCEPT !.fetched[m] = 0]
    /\ UNCHANGED <<fs, disk, cache, pc, item, latest, entry, dl, ret>>
    /\ UNCHANGED <<batch, doc, aside>>

\* main(), line 1173: the process starts and reads the cache
Launch ==
    /\ pc \in {"idle", "crashed"}
    /\ pc' = "prompt"
    /\ cache' = load_cache(disk)
    /\ doc' = [doc EXCEPT !.cache = LoadedShape(doc.disk)]
    /\ batch' = NoBatch
    /\ UNCHANGED <<backend, fs, disk, item, latest, entry, dl, ret, hist>>
    /\ UNCHANGED aside

\* main(), lines 1185-1188 and 1300-1301: the process ends
Quit ==
    /\ pc = "prompt"
    /\ ~batch.active
    /\ pc' = "idle"
    /\ cache' = EmptyCache
    /\ hist' = [hist EXCEPT !.unauthorized = FALSE, !.installed = "none"]
    /\ doc' = [doc EXCEPT !.cache = "sound"]
    /\ UNCHANGED <<backend, fs, disk, item, latest, entry, dl, ret, batch>>
    /\ UNCHANGED aside

\* process_single_mod's and download_file's locals go out of scope; so does the
\* name of the item's temporary directory, which no later step can read
LocalsDropped ==
    /\ item' = NoItem
    /\ latest' = NoLatest
    /\ entry' = NoEntry
    /\ dl' = NoDl
    /\ ret' = NoRet

\* lines 1322-1323: an exception leaves process_single_mod and main; the process
\* reports "Unexpected error occurred." and ends (`batch` is kept as it was then)
Raise ==
    /\ pc' = "crashed"
    /\ cache' = EmptyCache
    /\ fs' = OutOfReach(fs)
    /\ LocalsDropped
    /\ hist' = [hist EXCEPT !.unauthorized = FALSE]
    /\ doc' = [doc EXCEPT !.cache = "sound"]
    /\ UNCHANGED <<backend, disk, batch>>

\* lines 1320-1321: the user interrupts the process, wherever it is
Interrupt ==
    /\ pc \notin {"idle", "prompt"}
    /\ pc' = "idle"
    /\ cache' = EmptyCache
    /\ fs' = OutOfReach(fs)
    /\ LocalsDropped
    /\ hist' = [hist EXCEPT !.unauthorized = FALSE]
    /\ doc' = [doc EXCEPT !.cache = "sound"]
    /\ batch' = NoBatch
    /\ UNCHANGED <<backend, disk>>
    /\ UNCHANGED aside

\* lines 1251, 1266: process_single_mod is called for one mod URL
EnterItem(m, install_requested, force_requested) ==
    /\ pc' = "resolve"
    /\ item' = [mod |-> m, install |-> install_requested, force |-> force_requested]
    /\ hist' = IF force_requested
               THEN [hist EXCEPT !.force = TRUE, !.fetched = [k \in Mods |-> 0],
                                 !.installed = "none"]
               ELSE [hist EXCEPT !.installed = "none"]
    /\ UNCHANGED <<backend, fs, disk, cache, latest, entry, dl, ret, doc>>
    /\ UNCHANGED aside

\* main(), line 1266: process_single_mod is called for the URL entered at the prompt
Begin(m, install_requested, force_requested) ==
    /\ pc = "prompt"
    /\ ~batch.active
    /\ EnterItem(m, install_requested, force_requested)
    /\ UNCHANGED batch

\* lines 997-1044: a request of resolve_game_id, fetch_game_details, resolve_mod_id,
\* fetch_mod_details or fetch_mod_files fails, by a 401 ("unauthorized") or otherwise,
\* or no latest file with a download URL is found ("other"): the item fails before
\* the cache is read
ResolveFails(cause) ==
    /\ pc = "resolve"
    /\ pc' = "returned"
    /\ ret' = NoRet
    /\ hist' = [hist EXCEPT !.unauthorized = (cause = "unauthorized")]
    /\ UNCHANGED <<backend, fs, disk, cache, item, latest, entry, dl>>
    /\ UNCHANGED <<batch, doc, aside>>

\* lines 997-1048: the ids are resolved and the latest file is selected
Resolved ==
    /\ pc = "resolve"
    /\ pc' = "decide"
    /\ latest' = backend[item.mod]
    /\ hist' = [hist EXCEPT !.unauthorized = FALSE]
    /\ UNCHANGED <<backend, fs, disk, cache, item, entry, dl, ret>>
    /\ UNCHANGED <<batch, doc, aside>>

\* download_mod -> download_file(url, filename, expected_size, allow_existing) is entered
CallDownload(f, target, allow_existing) ==
    /\ pc' = "dl_prepare"
    /\ fs' = f
    /\ dl' = [NoDl EXCEPT !.called = TRUE, !.target = target, !.allow_existing = allow_existing,
                          !.expected_size = latest.filesize, !.attempt = 1]
    /\ ret' = NoRet

\* lines 1066-1070, 1073-1076, 1080-1082: the file in the download directory is used
UseExisting(existing_path) ==
    /\ pc' = "fetched"
    /\ ret' = [NoRet EXCEPT !.path = existing_path, !.skipped = TRUE]
    /\ UNCHANGED <<fs, dl>>

\* lines 1051-1104: the cache check and the choice between reuse and download.
\* Line 1058 raises when the mod's entry is truthy and no dict (entry.get).
Decide ==
    /\ pc = "decide"
    /\ IF doc.cache = "entry" THEN Raise ELSE
       /\ UNCHANGED <<backend, disk, cache, item, latest, hist, batch, doc>>
       /\ LET e == CacheGet(cache, item.mod)
              existing_path == DownloadPath(latest.filename)
              hit == CacheHit(e, latest.id, item.force)
              usable == isfile(existing_path) /\ SizeOk(existing_path, latest.filesize)
          IN /\ entry' = e
             /\ IF hit /\ item.install /\ InstallUpToDate(e, latest.id)
                THEN /\ pc' = "returned"
                     /\ ret' = [ok |-> TRUE, path |-> NoPath, skipped |-> TRUE, install_skip |-> TRUE]
                     /\ UNCHANGED <<fs, dl>>
                ELSE IF hit /\ usable
                THEN UseExisting(existing_path)
                ELSE IF ~item.install
                THEN IF usable /\ ~item.force
                     THEN UseExisting(existing_path)
                     ELSE CallDownload(fs, existing_path, TRUE)
                ELSE IF usable /\ ~item.force
                     THEN UseExisting(existing_path)
                     ELSE CallDownload(Mkdtemp(fs), TempPath(latest.filename), FALSE)
    /\ UNCHANGED aside

\* --------------------------------------------------------- download_file
\* download_file returns (ok, skipped, final_path); download_mod and
\* process_single_mod (lines 764-767, 1093-1104) turn it into downloaded_path, skipped
DlReturn(d, ok, skipped) ==
    /\ pc' = "fetched"
    /\ dl' = [d EXCEPT !.ok = ok, !.skipped = skipped, !.path = IF ok THEN d.target ELSE NoPath]
    /\ ret' = [NoRet EXCEPT !.path = IF ok THEN d.target ELSE NoPath, !.skipped = skipped]

\* an attempt failed with `cause`: the last attempt returns failure, an earlier
\* one sleeps and continues with the next
DlFail(d, cause) ==
    LET d2 == [d EXCEPT !.fails = Append(@, cause)]
    IN IF d.attempt >= MaxAttempts
       THEN DlReturn(d2, FALSE, FALSE)
       ELSE /\ pc' = "dl_prepare"
            /\ dl' = [d2 EXCEPT !.attempt = @ + 1]
            /\ ret' = ret

\* mutant of DlPrepare: an existing file is never reused
DlPrepareNoReuse ==
    /\ pc = "dl_prepare"
    /\ pc' = "dl_request"
    /\ fs' = Remove(fs, dl.target)
    /\ UNCHANGED <<backend, disk, cache, item, latest, entry, dl, ret, hist>>
    /\ UNCHANGED <<batch, doc, aside>>

\* lines 655-672: the target path is prepared; an existing file is reused when
\* allow_existing, and removed otherwise
DlPrepare ==
    /\ pc = "dl_prepare"
    /\ IF dl.allow_existing /\ isfile(dl.target)
       THEN /\ DlReturn(dl, TRUE, TRUE)
            /\ fs' = fs
       ELSE /\ pc' = "dl_request"
            /\ fs' = Remove(fs, dl.target)
            /\ UNCHANGED <<dl, ret>>
    /\ UNCHANGED <<backend, disk, cache, item, latest, entry, hist>>
    /\ UNCHANGED <<batch, doc, aside>>

\* lines 675-693: the GET request fails: no response ("network"), status 429, or
\* another status >= 400 ("http"). The three branches differ in the message and the
\* time slept, and are recorded as one kind of failure, "request".
DlRequestFails(cause) ==
    /\ pc = "dl_request"
    /\ cause \in {"network", "429", "http"}
    /\ DlFail([dl EXCEPT !.requests = @ + 1], "request")
    /\ UNCHANGED <<backend, fs, disk, cache, item, latest, entry, hist>>
    /\ UNCHANGED <<batch, doc, aside>>

\* lines 675, 695-702: the response arrives and the target is opened for writing
DlOpen ==
    /\ pc = "dl_request"
    /\ pc' = "dl_stream"
    /\ dl' = [dl EXCEPT !.requests = @ + 1]
    /\ fs' = WriteFile(fs, dl.target, [mod |-> item.mod, ver |-> latest.id, size |-> 0, complete |-> FALSE])
    /\ UNCHANGED <<backend, disk, cache, item, latest, entry, ret, hist>>
    /\ UNCHANGED <<batch, doc, aside>>

\* lines 703-722, 742-746: the stream breaks after `written` bytes; the exception
\* handler leaves the file where it is
DlStreamBreaks(written) ==
    /\ pc = "dl_stream"
    /\ fs' = WriteFile(fs, dl.target, [mod |-> item.mod, ver |-> latest.id, size |-> written, complete |-> FALSE])
    /\ DlFail(dl, "stream")
    /\ UNCHANGED <<backend, disk, cache, item, latest, entry, hist>>
    /\ UNCHANGED <<batch, doc, aside>>

\* lines 725-739: the size check of a completely written file of `actual` bytes
SizeMismatch(expected_size, actual) == expected_size # None /\ actual # expected_size

\* lines 703-741: the body is written to the end (`actual` bytes) and verified
DlStreamEnds(actual) ==
    /\ pc = "dl_stream"
    /\ LET written == WriteFile(fs, dl.target, [mod |-> item.mod, ver |-> latest.id, size |-> actual, complete |-> TRUE])
       IN IF SizeMismatch(dl.expected_size, actual)
          THEN /\ fs' = Remove(written, dl.target)
               /\ DlFail(dl, "size")
               /\ hist' = hist
          ELSE /\ fs' = written
               /\ DlReturn(dl, TRUE, FALSE)
               /\ hist' = IF hist.force THEN hist
                          ELSE [hist EXCEPT !.fetched[item.mod] = IF @ < 2 THEN @ + 1 ELSE @]
    /\ UNCHANGED <<backend, disk, cache, item, latest, entry>>
    /\ UNCHANGED <<batch, doc, aside>>

\* ------------------------------------------- process_single_mod, the end
\* mutant of Record: the entry is recorded whether or not there is a file
RecordAlways ==
    /\ pc = "fetched"
    /\ pc' = "returned"
    /\ cache' = CachePut(cache, item.mod, FetchEntry(CacheGet(cache, item.mod), latest))
    /\ disk' = save_cache(cache')
    /\ ret' = IF ret.path # NoPath THEN [ret EXCEPT !.ok = TRUE] ELSE NoRet
    /\ dl' = NoDl
    /\ UNCHANGED <<backend, fs, item, latest, entry, hist, batch, doc>>
    /\ UNCHANGED aside

\* lines 1106-1140: a downloaded or reused file is recorded in the cache, which is
\* saved at once; a failed download returns failure. Line 1127 raises when the
\* loaded document's "mods" is no dict.
Record ==
    /\ pc = "fetched"
    /\ IF ret.path # NoPath /\ doc.cache = "mods" THEN Raise ELSE
       /\ pc' = "returned"
       /\ IF ret.path # NoPath
          THEN /\ cache' = CachePut(cache, item.mod, FetchEntry(CacheGet(cache, item.mod), latest))
               /\ disk' = save_cache(cache')
               /\ doc' = [doc EXCEPT !.disk = doc.cache]
               /\ ret' = [ret EXCEPT !.ok = TRUE]
          ELSE /\ ret' = NoRet
               /\ UNCHANGED <<cache, disk, doc>>
       /\ dl' = NoDl
       /\ UNCHANGED <<backend, fs, item, latest, entry, hist, batch>>
    /\ UNCHANGED aside

\* ------------------------------------------------------------------ main
\* line 1267
InstallWanted == ret.ok /\ item.install /\ ~ret.install_skip

\* lines 1266-1267: nothing to install
Finish ==
    /\ pc = "returned"
    /\ ~batch.active
    /\ ~InstallWanted
    /\ pc' = "prompt"
    /\ fs' = OutOfReach(fs)
    /\ LocalsDropped
    /\ UNCHANGED <<backend, disk, cache, hist>>
    /\ UNCHANGED <<batch, doc, aside>>

\* lines 1268-1285, 1297-1298: no mod folder is detected, or the user skips or
\* mistypes the choice: nothing is installed and nothing is cleaned up
InstallDeclined ==
    /\ pc = "returned"
    /\ ~batch.active
    /\ InstallWanted
    /\ pc' = "prompt"
    /\ fs' = OutOfReach(fs)
    /\ LocalsDropped
    /\ UNCHANGED <<backend, disk, cache, hist>>
    /\ UNCHANGED <<batch, doc, aside>>

\* lines 1253-1261, 1288-1296: install_mod runs on the target; its success is
\* recorded in the cache, which is saved at once; the download is cleaned up either
\* way
InstallStep(target) ==
    /\ pc' = "prompt"
    /\ \E installed \in install_mod(ret.path, target, item.force) :
         /\ IF installed
            THEN /\ cache' = CachePut(cache, item.mod, InstallEntry(CacheGet(cache, item.mod), target))
                 /\ disk' = save_cache(cache')
                 /\ doc' = [doc EXCEPT !.disk = doc.cache]
            ELSE UNCHANGED <<cache, disk, doc>>
         /\ hist' = [hist EXCEPT !.installed = IF installed THEN "ok" ELSE "failed"]
    /\ fs' = OutOfReach(cleanup_temp_file(fs, ret.path))
    /\ LocalsDropped
    /\ UNCHANGED backend
    /\ UNCHANGED aside

\* lines 1286-1296: the user chose the install target
Install(target) ==
    /\ pc = "returned"
    /\ ~batch.active
    /\ InstallWanted
    /\ InstallStep(target)
    /\ UNCHANGED batch

\* the steps of the program and of the mod's author
Step ==
    \/ \E m \in Mods : Publish(m)
    \/ Launch
    \/ Quit
    \/ \E m \in Mods, install_requested \in BOOLEAN, force_requested \in BOOLEAN :
         Begin(m, install_requested, force_requested)
    \/ \E cause \in {"unauthorized", "other"} : ResolveFails(cause)
    \/ Resolved
    \/ Decide
    \/ DlPrepare
    \/ \E cause \in {"network", "429", "http"} : DlRequestFails(cause)
    \/ DlOpen
    \/ \E written \in 0..(MaxSize - 1) : DlStreamBreaks(written)
    \/ \E actual \in Sizes : DlStreamEnds(actual)
    \/ Record
    \/ Finish
    \/ InstallDeclined
    \/ \E target \in TargetDirs : Install(target)

Next == Step \/ Interrupt

Spec == Init /\ [][Next]_vars

\* the behaviours in which no invocation is interrupted
SpecUninterrupted == Init /\ [][Step]_vars

\* ------------------------------------------- select_latest_file on its own
\* process_single_mod from the files of the mod on: any list of files may come from
\* the backend
InitSelect ==
    /\ InitPipeline
    /\ doc = SoundDoc
    /\ \E dates \in FileLists : sel = [NoSel EXCEPT !.files = Numbered(dates)]
    /\ rs = NoRs
    /\ srch = NoSrch
    /\ info = NoInfo
    /\ inst = NoInst

\* line 1036: latest_file = select_latest_file(files)
Select ==
    /\ pc = "resolve"
    /\ ~sel.called
    /\ sel' = [sel EXCEPT !.called = TRUE, !.latest = select_latest_file(sel.files)]
    /\ UNCHANGED <<pipeline, rs, inst, pure>>

\* the backend lists the files in another order
Reorder ==
    /\ ~sel.called
    /\ \E i \in 1..(Len(sel.files) - 1) :
         sel' = [NoSel EXCEPT !.files =
                    [k \in DOMAIN sel.files |->
                        [id |-> k,
                         date_added |-> sel.files[IF k = i THEN i + 1
                                                  ELSE IF k = i + 1 THEN i ELSE k].date_added]]]
    /\ UNCHANGED <<pipeline, rs, inst, pure>>

\* lines 1037-1039: no latest file; process_single_mod reports it and returns
\* failure (what follows the selection of a file is Resolved of the pipeline)
NoLatestFile ==
    /\ sel.called
    /\ sel.latest = NoFile
    /\ ResolveFails("other")

NextSelect ==
    \/ Launch
    \/ \E m \in Mods, install_requested \in BOOLEAN, force_requested \in BOOLEAN :
         Begin(m, install_requested, force_requested)
    \/ Select
    \/ Reorder
    \/ NoLatestFile

SpecSelect == InitSelect /\ [][NextSelect]_vars

\* ------------------------------------------------- a resolve call on its own
\* lines 997, 1013: process_single_mod calls resolve_game_id or resolve_mod_id, in
\* this run of the program or in the next one
ResolveCall(call, slug) ==
    /\ rs.at \in {"idle", "done", "raised"}
    /\ rs' = [NoRs EXCEPT !.at = call, !.call = call, !.slug = slug]
    /\ UNCHANGED <<pipeline, sel, inst, pure>>

\* lines 327-355: resolve_game_id; an empty list sends it to the search
ResolveGameId(resp) ==
    /\ rs.at = "resolve_game_id"
    /\ rs' = IF resp = "empty" THEN [Answered(rs, resp) EXCEPT !.at = "fallback_search_game_id"]
             ELSE OneRequest(rs, resp)
    /\ UNCHANGED <<pipeline, sel, inst, pure>>

\* lines 370-394: fallback_search_game_id; resolve_game_id returns its id or error
FallbackSearchGameId(resp) ==
    /\ rs.at = "fallback_search_game_id"
    /\ rs' = OneRequest(rs, resp)
    /\ UNCHANGED <<pipeline, sel, inst, pure>>

\* mutant of ResolveModId: a match of the filter is looked up again by the search
ResolveModIdSearchesAnyway(resp) ==
    /\ rs.at = "resolve_mod_id"
    /\ rs' = IF resp = "404" THEN [Answered(rs, resp) EXCEPT !.at = "resolve_mod_id_global"]
             ELSE IF resp \in {"empty", "found"}
                  THEN [Answered(rs, resp) EXCEPT !.at = "fallback_search_mod_id"]
             ELSE OneRequest(rs, resp)
    /\ UNCHANGED <<pipeline, sel, inst, pure>>

\* lines 397-430: resolve_mod_id; a 404 sends it to the global lookup, an empty
\* list to the search within the game
ResolveModId(resp) ==
    /\ rs.at = "resolve_mod_id"
    /\ rs' = IF resp = "404" THEN [Answered(rs, resp) EXCEPT !.at = "resolve_mod_id_global"]
             ELSE IF resp = "empty" THEN [Answered(rs, resp) EXCEPT !.at = "fallback_search_mod_id"]
             ELSE OneRequest(rs, resp)
    /\ UNCHANGED <<pipeline, sel, inst, pure>>

\* lines 433-466: resolve_mod_id_global; a 404 sends it to the global search
ResolveModIdGlobal(resp) ==
    /\ rs.at = "resolve_mod_id_global"
    /\ rs' = IF resp = "404" THEN [Answered(rs, resp) EXCEPT !.at = "resolve_mod_id_global_search"]
             ELSE OneRequest(rs, resp)
    /\ UNCHANGED <<pipeline, sel, inst, pure>>

\* lines 469-498 and 445-451: resolve_mod_id_global_search returns to
\* resolve_mod_id_global, which returns an id found; otherwise it keeps search_err
\* and calls resolve_mod_id_numeric, which returns (None, None) at once when
\* mod_slug.isdigit() is false (lines 502-503), and otherwise goes on to
\* int(mod_slug) (line 504), which gives the id to ask for or raises
ResolveModIdGlobalSearch(resp) ==
    /\ rs.at = "resolve_mod_id_global_search"
    /\ rs' = IF resp = "found" THEN OneRequest(rs, resp)
             ELSE CASE rs.slug = "decimal" ->
                         [Answered(rs, resp) EXCEPT !.at = "resolve_mod_id_numeric",
                                                    !.search_err = ErrOf(resp)]
                    [] rs.slug = "digit" -> Raises(Answered(rs, resp))
                    [] OTHER -> Returns(Answered(rs, resp), None, ErrOf(resp))
    /\ UNCHANGED <<pipeline, sel, inst, pure>>

\* lines 505-523 and 449-451: resolve_mod_id_numeric; resolve_mod_id_global returns
\* its id, or search_err or numeric_err
ResolveModIdNumeric(resp) ==
    /\ rs.at = "resolve_mod_id_numeric"
    /\ rs' = IF resp = "found" THEN OneRequest(rs, resp)
             ELSE Returns(Answered(rs, resp), None,
                          IF rs.search_err # "" THEN rs.search_err ELSE ErrOf(resp))
    /\ UNCHANGED <<pipeline, sel, inst, pure>>

\* lines 526-550: fallback_search_mod_id; resolve_mod_id returns its id or error
FallbackSearchModId(resp) ==
    /\ rs.at = "fallback_search_mod_id"
    /\ rs' = OneRequest(rs, resp)
    /\ UNCHANGED <<pipeline, sel, inst, pure>>

NextResolve ==
    \/ \E call \in {"resolve_game_id", "resolve_mod_id"}, slug \in SlugKinds :
         ResolveCall(call, slug)
    \/ \E resp \in Responses : ResolveGameId(resp)
    \/ \E resp \in Responses : FallbackSearchGameId(resp)
    \/ \E resp \in Responses : ResolveModId(resp)
    \/ \E resp \in Responses : ResolveModIdGlobal(resp)
    \/ \E resp \in Responses : ResolveModIdGlobalSearch(resp)
    \/ \E resp \in Responses : ResolveModIdNumeric(resp)
    \/ \E resp \in Responses : FallbackSearchModId(resp)

SpecResolve == Init /\ [][NextResolve]_vars

\* ------------------------------------- the scans of the searches on their own
\* any list of items may come from the backend, for either spelling of the slug
InitSearch ==
    /\ InitPipeline
    /\ doc = SoundDoc
    /\ sel = NoSel
    /\ rs = NoRs
    /\ inst = NoInst
    /\ info = NoInfo
    /\ \E shapes \in SearchLists, slug \in InputSlugs :
         srch = [NoSrch EXCEPT !.items = NumberedItems(shapes), !.slug = slug]

\* the search named fn went through the items and returns id
Searched(fn, id) ==
    /\ ~srch.called
    /\ srch' = [srch EXCEPT !.called = TRUE, !.fn = fn, !.id = id]
    /\ UNCHANGED <<pipeline, sel, rs, inst, info>>

\* lines 389-394
SearchGame == Searched("fallback_search_game_id", fallback_search_game_id(srch.items, srch.slug))

\* lines 545-550
SearchMod == Searched("fallback_search_mod_id", fallback_search_mod_id(srch.items, srch.slug))

\* lines 488-498
SearchModGlobal ==
    Searched("resolve_mod_id_global_search",
             resolve_mod_id_global_search(srch.items, GameId, srch.slug))

NextSearch == SearchGame \/ SearchMod \/ SearchModGlobal

SpecSearch == InitSearch /\ [][NextSearch]_vars

\* ---------------------------------------- extract_download_info on its own
\* any file object may have been selected
InitDownloadInfo ==
    /\ InitPipeline
    /\ doc = SoundDoc
    /\ sel = NoSel
    /\ rs = NoRs
    /\ inst = NoInst
    /\ srch = NoSrch
    /\ \E file_obj \in FileObjects : info = [NoInfo EXCEPT !.file_obj = file_obj]

\* line 1041: binary_url, filename = extract_download_info(latest_file)
ExtractDownloadInfo ==
    /\ ~info.called
    /\ info' = [info EXCEPT !.called = TRUE, !.out = extract_download_info(info.file_obj)]
    /\ UNCHANGED <<pipeline, sel, rs, inst, srch>>

\* lines 1042-1044: no download URL; process_single_mod returns failure
NoDownloadUrl ==
    /\ info.called
    /\ info.out.url = NoText
    /\ info.target = NoText
    /\ info' = [info EXCEPT !.target = <<>>]
    /\ UNCHANGED <<pipeline, sel, rs, inst, srch>>

\* lines 1097-1102, 764, 654-660: without --install and with no file to reuse,
\* download_mod(binary_url, filename) calls download_file, which settles its target
DownloadFileTarget ==
    /\ info.called
    /\ info.out.url # NoText
    /\ info.target = NoText
    /\ info' = [info EXCEPT !.target = download_target(info.out.filename)]
    /\ UNCHANGED <<pipeline, sel, rs, inst, srch>>

NextDownloadInfo == ExtractDownloadInfo \/ NoDownloadUrl \/ DownloadFileTarget

SpecDownloadInfo == InitDownloadInfo /\ [][NextDownloadInfo]_vars

\* ------------------------------------------------------ install_mod on its own
\* any archive called a.zip (a ZIP or not) and any target directory; or a zip_path
\* that names no file, or a target_path that names no directory
InitInstall ==
    /\ InitPipeline
    /\ doc = SoundDoc
    /\ sel = NoSel
    /\ rs = NoRs
    /\ srch = NoSrch
    /\ info = NoInfo
    /\ \E isfile_zip \in BOOLEAN, isdir_target \in BOOLEAN, zip \in BOOLEAN,
          entries \in Contents, target \in Contents :
         /\ ~isfile_zip => (~zip /\ entries = NoContents)
         /\ ~isdir_target => target = NoContents
         /\ inst = [NoInst EXCEPT !.archive = [isfile |-> isfile_zip, zip |-> zip,
                                               entries |-> entries],
                                  !.isdir = isdir_target,
                                  !.target = target]

\* lines 952-968: install_mod(zip_path, target_path, force) is called; a zip_path
\* that is no file and a target_path that is no directory return False at once; a
\* directory of the archive's base name that holds something ends the call at once
InstallModCall(force) ==
    /\ inst.at \in {"idle", "returned"}
    /\ Len(inst.results) < MaxCalls
    /\ LET i == [inst EXCEPT !.force = force, !.forced = @ \/ force, !.tmp = "none"]
       IN inst' = IF ~inst.archive.isfile \/ ~inst.isdir
                  THEN InstallReturns(i, FALSE, 0)
                  ELSE IF UpToDateDir(inst.target, force)
                  THEN InstallReturns(i, TRUE, 0)
                  ELSE [i EXCEPT !.at = "extract_mod"]
    /\ UNCHANGED <<pipeline, sel, rs, pure>>

\* lines 777-779, 969-972: the archive is no ZIP
ExtractNotZip ==
    /\ inst.at = "extract_mod"
    /\ ~inst.archive.zip
    /\ inst' = InstallReturns(inst, FALSE, 0)
    /\ UNCHANGED <<pipeline, sel, rs, pure>>

\* lines 780-789, 969-972, 987-989: extract_mod makes its directory and extractall
\* raises part-way; extract_mod returns None and install_mod has no path to remove
ExtractFails ==
    /\ inst.at = "extract_mod"
    /\ inst.archive.zip
    /\ inst' = InstallReturns([inst EXCEPT !.tmp = "partial"], FALSE, 1)
    /\ UNCHANGED <<pipeline, sel, rs, pure>>

\* lines 780-786: extract_mod extracts the archive into its directory
Extracted ==
    /\ inst.at = "extract_mod"
    /\ inst.archive.zip
    /\ inst' = [inst EXCEPT !.at = "copy", !.tmp = "full"]
    /\ UNCHANGED <<pipeline, sel, rs, pure>>

\* lines 974-980, 984-989: copying raises after the entries `done` were copied; the
\* finally clause removes the extraction directory
CopyFails(done) ==
    /\ inst.at = "copy"
    /\ done \subseteq DOMAIN inst.archive.entries
    /\ done # DOMAIN inst.archive.entries
    /\ \A n \in done : Copyable(inst.target, n, inst.archive.entries[n])
    /\ inst' = InstallReturns([inst EXCEPT !.target = CopyInto(@, inst.archive.entries, done),
                                           !.tmp = "none"], FALSE, 1)
    /\ UNCHANGED <<pipeline, sel, rs, pure>>

\* lines 974-983, 987-989: every entry is copied; the finally clause removes the
\* extraction directory
Copied ==
    /\ inst.at = "copy"
    /\ \A n \in DOMAIN inst.archive.entries : Copyable(inst.target, n, inst.archive.entries[n])
    /\ inst' = InstallReturns([inst EXCEPT !.target = CopyInto(@, inst.archive.entries,
                                                              DOMAIN inst.archive.entries),
                                           !.tmp = "none"], TRUE, 1)
    /\ UNCHANGED <<pipeline, sel, rs, pure>>

NextInstall ==
    \/ \E force \in BOOLEAN : InstallModCall(force)
    \/ ExtractNotZip
    \/ ExtractFails
    \/ Extracted
    \/ \E done \in SUBSET Names : CopyFails(done)
    \/ Copied

SpecInstall == InitInstall /\ [][NextInstall]_vars

\* ------------------------------------------------------------ batch mode
\* lines 1189-1243: "file:<path>" was entered at the prompt and load_batch_urls
\* returned `urls`. With install requested and a valid URL in the list, the game of
\* the first valid URL is resolved and the install target is chosen once for the
\* batch: an error `err`, no candidate folder or no valid choice (target = None)
\* turns the install off.
BatchStart(urls, install_requested, force_requested, err, target) ==
    /\ pc = "prompt"
    /\ ~batch.active
    /\ LET asks == install_requested /\ \E i \in DOMAIN urls : urls[i] # InvalidUrl
           install == asks /\ err = "" /\ target # None
       IN /\ batch' = [active |-> TRUE, urls |-> urls, next |-> 1,
                       install |-> install, force |-> force_requested,
                       target |-> IF install THEN target ELSE None, done |-> <<>>]
          /\ hist' = IF asks THEN [hist EXCEPT !.unauthorized = (err = "unauthorized")]
                     ELSE hist
    /\ UNCHANGED <<backend, fs, disk, cache, pc, item, latest, entry, dl, ret, doc>>
    /\ UNCHANGED aside

\* the loop of line 1245 is at a URL
AtUrl == batch.active /\ batch.next \in DOMAIN batch.urls

\* lines 1246-1249: the line is no mod.io URL and is passed over
BatchSkip ==
    /\ pc = "prompt"
    /\ AtUrl
    /\ batch.urls[batch.next] = InvalidUrl
    /\ batch' = [batch EXCEPT !.next = @ + 1]
    /\ UNCHANGED <<backend, fs, disk, cache, pc, item, latest, entry, dl, ret, hist, doc>>
    /\ UNCHANGED aside

\* lines 1250-1251: process_single_mod is called for the URL
BatchBegin ==
    /\ pc = "prompt"
    /\ AtUrl
    /\ batch.urls[batch.next] # InvalidUrl
    /\ EnterItem(batch.urls[batch.next], batch.install, batch.force)
    /\ batch' = [batch EXCEPT !.done = Append(@, batch.next)]

\* line 1252
BatchInstallWanted == InstallWanted /\ batch.target # None

\* lines 1252, 1262-1263: nothing to install for this URL; the loop goes on
BatchItemDone ==
    /\ pc = "returned"
    /\ batch.active
    /\ ~BatchInstallWanted
    /\ pc' = "prompt"
    /\ fs' = OutOfReach(fs)
    /\ LocalsDropped
    /\ batch' = [batch EXCEPT !.next = @ + 1]
    /\ UNCHANGED <<backend, disk, cache, hist, doc>>
    /\ UNCHANGED aside

\* lines 1252-1263: install_mod runs on the batch's target; the loop goes on
BatchInstall ==
    /\ pc = "returned"
    /\ batch.active
    /\ BatchInstallWanted
    /\ InstallStep(batch.target)
    /\ batch' = [batch EXCEPT !.next = @ + 1]

\* line 1264: the list is exhausted; main prompts again
BatchEnd ==
    /\ pc = "prompt"
    /\ batch.active
    /\ batch.next > Len(batch.urls)
    /\ batch' = NoBatch
    /\ UNCHANGED <<backend, fs, disk, cache, pc, item, latest, entry, dl, ret, hist, doc>>
    /\ UNCHANGED aside

\* the cache file is sound or damaged when main() starts
InitBatch ==
    /\ InitPipeline
    /\ sel = NoSel
    /\ rs = NoRs
    /\ srch = NoSrch
    /\ info = NoInfo
    /\ inst = NoInst

NextBatch ==
    \/ Step
    \/ \E urls \in BatchLists, install_requested \in BOOLEAN, force_requested \in BOOLEAN,
          err \in {"", "unauthorized", "other"}, target \in TargetDirs \cup {None} :
         BatchStart(urls, install_requested, force_requested, err, target)
    \/ BatchSkip
    \/ BatchBegin
    \/ BatchItemDone
    \/ BatchInstall
    \/ BatchEnd

SpecBatch == InitBatch /\ [][NextBatch]_vars

\* ------------------------------------------------ a damaged cache document
\* the cache file is damaged when main() starts
InitDamaged ==
    /\ InitPipeline
    /\ doc.disk # "sound"
    /\ sel = NoSel
    /\ rs = NoRs
    /\ srch = NoSrch
    /\ info = NoInfo
    /\ inst = NoInst

SpecDamaged == InitDamaged /\ [][Next]_vars

\* ------------------------------------------- a cache that holds another mod
\* a mod that an earlier session processed and that this one does not ask for
OtherMod == 2

\* main() is about to start on a cache file that holds the entry of OtherMod
InitOtherMod ==
    /\ backend \in [Mods -> [id : {1}, filename : {FirstName}, filesize : Sizes \cup {None}]]
    /\ fs = [p \in {} |-> None]
    /\ disk = CachePut(EmptyCache, OtherMod,
                       FetchEntry(NoEntry, [id |-> 1, filename |-> "b.zip", filesize |-> None]))
    /\ cache = EmptyCache
    /\ pc = "idle"
    /\ item = NoItem
    /\ latest = NoLatest
    /\ entry = NoEntry
    /\ dl = NoDl
    /\ ret = NoRet
    /\ hist = [force |-> FALSE, fetched |-> [m \in Mods |-> 0], unauthorized |-> FALSE,
               installed |-> "none"]
    /\ batch = NoBatch
    /\ doc = SoundDoc
    /\ sel = NoSel
    /\ rs = NoRs
    /\ srch = NoSrch
    /\ info = NoInfo
    /\ inst = NoInst

SpecOtherMod == InitOtherMod /\ [][Next]_vars

\* ------------------------------------------------------------ the claims
\* The cache entry that process_single_mod read names the resolved latest version
\* (line 1058 without the force flag).
EntryMatches == entry # NoEntry /\ entry.latest_version_id = latest.id

\* process_single_mod is at line 1106: the cache check and the download, if any,
\* are over
AtOutcome == pc = "fetched"

\* download_file was called for this item and has returned
DownloadReturned == pc = "fetched" /\ dl.called

\* C1: with force false, the download is skipped (no request is made
\* and the path of the file in the download directory is returned) exactly when
\* the cache entry exists and names the resolved latest version.
C1_SkipIffEntryMatches ==
    (AtOutcome /\ ~item.force) =>
        (EntryMatches <=> (dl.requests = 0 /\ ret.path = DownloadPath(latest.filename)))

\* C2: over invocations that never pass force, the latest version of
\* a mod is downloaded from the network at most once.
C2_FetchedAtMostOnce == \A m \in Mods : hist.fetched[m] <= 1

\* C3: whenever download_file returns a path and an expected size was
\* given, the file at that path has the expected size, reused or not.
C3_EveryReturnedFileHasExpectedSize ==
    (DownloadReturned /\ dl.ok /\ dl.expected_size # None) =>
        (isfile(dl.path) /\ getsize(dl.path) = dl.expected_size)

C6_NoPartialFile == \A p \in DOMAIN fs : fs[p].complete

\* process_single_mod has just recorded a fetch result (lines 1125-1137)
FetchRecorded == pc = "returned" /\ ret.ok /\ ~ret.install_skip

\* C7: when a fetch result is recorded over an existing entry, the
\* entry keeps its installed_version_id and installed_path.
C7_RecordKeepsInstallFields ==
    (FetchRecorded /\ entry # NoEntry) =>
        /\ cache[item.mod].installed_version_id = entry.installed_version_id
        /\ cache[item.mod].installed_path = entry.installed_path

C9_InstalledIsLatest ==
    \A c \in {cache, disk} : \A m \in DOMAIN c :
        c[m].installed_version_id \in {None, c[m].latest_version_id}

\* C9 witness: the entry of a mod held an install of an earlier version when a
\* newer version's fetch was recorded.
C9_Witness ==
    /\ FetchRecorded
    /\ entry # NoEntry
    /\ entry.installed_version_id # None
    /\ entry.installed_version_id # latest.id

\* C10: with force set, process_single_mod always makes a download
\* request for the latest file.
C10_ForceAlwaysFetches == (AtOutcome /\ item.force) => dl.requests >= 1

\* process_single_mod has read an entry that records the resolved latest version
\* both as latest and as installed, to a directory that exists; install is
\* requested and force is not
InstalledAndCurrent ==
    /\ item.install
    /\ ~item.force
    /\ entry # NoEntry
    /\ entry.latest_version_id = latest.id
    /\ entry.installed_version_id = latest.id
    /\ entry.installed_path \in TargetDirs

\* C11: with install requested and force false, when the entry records the resolved
\* latest version as latest and as installed and the installed path is a directory,
\* process_single_mod returns success at once: no download is entered, nothing is
\* left to install, and the in-memory and persisted cache hold the entry as read.
C11_UpToDateDoesNothing ==
    InstalledAndCurrent =>
        /\ pc = "returned"
        /\ ret.ok /\ ret.install_skip /\ ret.path = NoPath
        /\ ~dl.called
        /\ ~InstallWanted
        /\ cache[item.mod] = entry
        /\ disk = cache

\* C11 witness: the pipeline has returned for an installed, current mod.
C11_Witness == InstalledAndCurrent /\ pc = "returned"

\* C12: when download_file is entered with allow_existing and a file exists at the
\* target path, its step returns that file, with the reused flag, and no request
\* has been made; the file is left as it is. (A step to "idle" is an interrupt.)
C12_ExistingFileIsReused ==
    [][(pc = "dl_prepare" /\ dl.attempt = 1 /\ dl.allow_existing /\ isfile(dl.target)
            /\ pc' # "idle") =>
          /\ pc' = "fetched"
          /\ dl'.ok /\ dl'.skipped /\ dl'.path = dl.target /\ dl'.requests = 0
          /\ ret'.path = dl.target /\ ret'.skipped
          /\ fs' = fs]_vars

\* C12 witness: download_file has returned a reused file at its first attempt.
C12_Witness ==
    /\ DownloadReturned /\ dl.allow_existing /\ dl.attempt = 1
    /\ dl.ok /\ dl.skipped /\ dl.requests = 0 /\ isfile(dl.path)

\* the files of the list that carry an integer date_added
Dated == {i \in DOMAIN sel.files : sel.files[i].date_added # None}

\* C15: the file select_latest_file returns has a date_added not less than that of
\* any file of the list, and strictly greater than that of every file before it
\* (a later file replaces an earlier one only when strictly newer): on a list of
\* equal timestamps it is the first element.
C15_LatestAndFirstOfTies ==
    sel.called =>
        /\ (Dated # {}) => sel.latest # NoFile
        /\ (sel.latest # NoFile) =>
              /\ sel.latest = sel.files[sel.latest.id]
              /\ \A i \in Dated : sel.files[i].date_added <= sel.latest.date_added
              /\ \A i \in Dated : i < sel.latest.id =>
                     sel.files[i].date_added < sel.latest.date_added
        /\ (/\ Len(sel.files) > 0
            /\ Dated = DOMAIN sel.files
            /\ \A i \in Dated : sel.files[i].date_added = sel.files[1].date_added)
              => sel.latest = sel.files[1]

\* C15 witness: a list of several files with one timestamp was given, and its
\* first file came back.
C15_Witness ==
    /\ sel.called
    /\ Len(sel.files) >= 2
    /\ Dated = DOMAIN sel.files
    /\ \A i \in Dated : sel.files[i].date_added = sel.files[1].date_added
    /\ sel.latest = sel.files[1]

\* C13: in a resolve call no request follows a 401 response, and a call in which
\* a 401 was received returns the Unauthorized error.
C13_UnauthorizedStopsResolving ==
    /\ \A i \in 1..(Len(rs.log) - 1) : rs.log[i] # "401"
    /\ (rs.at = "done" /\ \E i \in DOMAIN rs.log : rs.log[i] = "401") =>
           (rs.id = None /\ rs.err = "unauthorized")

\* C14: once a backend request of the running process was answered by 401, the
\* process sends no further backend request: process_single_mod, entered again,
\* does not get to send the requests of its resolution.
C14_UnauthorizedEndsSession ==
    [][~(hist.unauthorized /\ pc = "resolve" /\ pc' \in {"decide", "returned"})]_vars

\* C16: when install_mod was called twice in succession without force, and the
\* first call returned success, the second call extracted nothing and returned
\* success.
C16_SecondInstallIsNoOp ==
    (Len(inst.results) >= 2 /\ ~inst.forced /\ inst.results[1]) =>
        (inst.results[2] /\ inst.work[2] = 0)

\* C17: when install_mod has returned, the extraction directory made for the call
\* does not exist.
C17_ExtractionDirRemoved == inst.at = "returned" => inst.tmp = "none"

\* process_single_mod has returned failure after the latest file was selected: the
\* fetch failed
FetchFailed == pc = "returned" /\ ~ret.ok /\ latest # NoLatest

\* C18: when the fetch of an item has failed, the in-memory and the persisted cache
\* hold for the mod what process_single_mod read before the fetch; and the step in
\* which install_mod returns false changes neither cache, so the entry's
\* installed_version_id and installed_path stay as they were.
C18_FailureLeavesCache ==
    /\ [](FetchFailed => (CacheGet(cache, item.mod) = entry /\ disk = cache))
    /\ [][(pc = "returned" /\ hist'.installed = "failed") =>
              (cache' = cache /\ disk' = disk)]_vars

\* C18 witness: a fetch has failed for a mod that has a cache entry.
C18_Witness == FetchFailed /\ entry # NoEntry

\* C20: whatever the cache file holds, no exception leaves process_single_mod.
C20_DamagedCacheNeverAborts == pc # "crashed"

\* the lines of the batch that are mod URLs
ValidUrls == {i \in DOMAIN batch.urls : batch.urls[i] # InvalidUrl}

\* the lines the loop has come to: those before the one it is at, and that one when
\* process_single_mod has been entered for it
Reached == {i \in ValidUrls : i < batch.next \/ (i = batch.next /\ pc # "prompt")}

\* C19: in a batch, process_single_mod is called for the valid URLs the loop has
\* come to, once each and in list order; and the batch does not end by an item's
\* failure before it was called for every valid URL.
C19_EveryUrlOnceInOrder ==
    batch.active =>
        /\ Len(batch.done) = Cardinality(Reached)
        /\ \A k \in DOMAIN batch.done : batch.done[k] \in Reached
        /\ \A k, l \in DOMAIN batch.done : k < l => batch.done[k] < batch.done[l]
        /\ pc = "crashed" => \A i \in ValidUrls : \E k \in DOMAIN batch.done : batch.done[k] = i

\* C21: when the first request of resolve_game_id or resolve_mod_id, the exact
\* filter, finds zero matches, gets no response or gets a 5xx response, the resolver
\* goes on to its full-text search instead of returning.
C21_FilterFailureFallsThrough ==
    (Len(rs.log) = 1 /\ rs.log[1] \in {"empty", "none", "500"}) =>
        rs.at = (IF rs.call = "resolve_game_id" THEN "fallback_search_game_id"
                 ELSE "fallback_search_mod_id")

\* the answers by which a lookup says that it did not find the mod
NotFoundAnswers == {"404", "empty"}

\* C22: after a 404 of the per-game filter of resolve_mod_id the global filter is
\* asked; when it does not find the mod the global search is asked; when that does
\* not find it either the lookup by numeric id is asked if the slug is numeric, and
\* for a slug that is not numeric no fourth request is made.
C22_FallbacksInOrder ==
    (rs.call = "resolve_mod_id" /\ Len(rs.log) >= 1 /\ rs.log[1] = "404") =>
        /\ Len(rs.log) = 1 => rs.at = "resolve_mod_id_global"
        /\ (Len(rs.log) = 2 /\ rs.log[2] \in NotFoundAnswers) =>
               rs.at = "resolve_mod_id_global_search"
        /\ (Len(rs.log) = 3 /\ rs.log[2] \in NotFoundAnswers
                /\ rs.log[3] \in NotFoundAnswers \cup {"malformed"}) =>
               /\ rs.slug = "decimal" => rs.at = "resolve_mod_id_numeric"
               /\ rs.slug = "name" => rs.at = "done"
        /\ rs.slug = "name" => Len(rs.log) <= 3

\* C24: a resolve call that returns an error after one of its fallbacks got no
\* response, a 429 or a 5xx does not return the generic not-found message.
C24_MostSpecificError ==
    (/\ rs.at = "done"
     /\ rs.id = None
     /\ \E i \in 2..Len(rs.log) : rs.log[i] \in {"none", "429", "500"}) =>
        rs.err # "not_found"

\* C25: when the exact filter, the first request of a resolve call, answers with
\* the match, the call returns its id and no error and sends no other request.
C25_ExactMatchEndsResolution ==
    (Len(rs.log) >= 1 /\ rs.log[1] = "found") =>
        (rs.at = "done" /\ Len(rs.log) = 1 /\ rs.id # None /\ rs.err = "")

C25_Witness ==
    /\ rs.call = "resolve_mod_id"
    /\ rs.at = "done"
    /\ rs.log = <<"found">>
    /\ rs.id # None

\* C27: a resolve call raises nothing, and it returns either an id and no error
\* or no id and an error.
C27_NeverRaisesOneOfIdAndError ==
    /\ rs.at # "raised"
    /\ rs.at = "done" => ((rs.id # None) # (rs.err # ""))

\* C23: an id returned by resolve_mod_id_global_search is the id of an item whose
\* game_id is the game id being resolved.
C23_GlobalSearchKeepsToGame ==
    (srch.called /\ srch.fn = "resolve_mod_id_global_search" /\ srch.id # None) =>
        \E i \in DOMAIN srch.items :
            srch.items[i].id = srch.id /\ srch.items[i].game_id = GameId

\* the items whose name_id or slug is the slug looked for, whatever the case
SlugMatches ==
    {i \in DOMAIN srch.items :
        \/ lower(srch.items[i].name_id) = lower(srch.slug)
        \/ lower(srch.items[i].slug) = lower(srch.slug)}

\* C26: fallback_search_game_id and fallback_search_mod_id return the id of the
\* first item of the response whose name_id or slug equals the slug looked for
\* without regard to case, and no id when no item matches; an id returned is the id
\* of a matching item.
C26_FirstMatchOfSearch ==
    (srch.called /\ srch.fn \in {"fallback_search_game_id", "fallback_search_mod_id"}) =>
        /\ SlugMatches = {} => srch.id = None
        /\ \A i \in SlugMatches :
              ((\A j \in SlugMatches : i <= j) /\ srch.items[i].id # None) =>
                  srch.id = srch.items[i].id
        /\ srch.id # None => \E i \in SlugMatches : srch.items[i].id = srch.id

C26_Witness ==
    /\ srch.called
    /\ srch.fn = "fallback_search_mod_id"
    /\ srch.slug = "abc"
    /\ Len(srch.items) = 2
    /\ SlugMatches = {1, 2}
    /\ srch.items[1].name_id = "Abc"
    /\ srch.items[1].slug = NoStr
    /\ srch.items[2].id = 2
    /\ srch.id = 1

\* C29: extract_download_info returns (None, None) when the file object has no
\* download URL or a blank one; otherwise it returns the URL with every escaped
\* slash replaced by a slash, and a filename that is not empty: the declared one
\* when there is one, else the last path segment of the returned URL with its
\* percent-encoded characters decoded, else the placeholder.
C29_DownloadInfo ==
    LET f == info.file_obj
        o == info.out
    IN info.called =>
        IF ~f.download \/ f.binary_url = NoText
              \/ \A i \in DOMAIN f.binary_url : f.binary_url[i] = " "
        THEN o.url = NoText /\ o.filename = NoText
        ELSE /\ Len(o.url) = Len(f.binary_url)
             /\ \A i \in DOMAIN o.url :
                   o.url[i] = (IF f.binary_url[i] = "\\/" THEN "/" ELSE f.binary_url[i])
             /\ o.filename \notin {NoText, <<>>}
             /\ IF f.filename \notin {NoText, BlankText} THEN o.filename = f.filename
                ELSE \E k \in 0..Len(o.url) :
                        /\ k = 0 \/ o.url[k] = "/"
                        /\ \A j \in (k + 1)..Len(o.url) : o.url[j] # "/"
                        /\ IF k = Len(o.url) THEN o.filename = <<"modfile.bin">>
                           ELSE /\ Len(o.filename) = Len(o.url) - k
                                /\ \A j \in DOMAIN o.filename :
                                      o.filename[j] = (IF o.url[k + j] = "%41" THEN "A"
                                                       ELSE o.url[k + j])

C29_Witness ==
    /\ info.called
    /\ info.file_obj.download
    /\ info.file_obj.filename = NoText
    /\ info.file_obj.binary_url = <<"a", "\\/", "%41">>
    /\ info.out = [url |-> <<"a", "/", "%41">>, filename |-> <<"A">>]

\* C28: select_latest_file returns None for a list that is empty or in which no
\* file has an integer date_added; and from there process_single_mod returns
\* failure without raising, calling download_file, touching a file or changing
\* the in-memory or the persisted cache.
C28_NoLatestFileFailsQuietly ==
    /\ []((sel.called /\ \A i \in DOMAIN sel.files : sel.files[i].date_added = None) =>
              sel.latest = NoFile)
    /\ [][(pc = "resolve" /\ sel.called /\ sel.latest = NoFile) =>
              (/\ pc' = "returned"
               /\ ~ret'.ok
               /\ ret'.path = NoPath
               /\ dl' = dl
               /\ ~dl'.called
               /\ fs' = fs
               /\ cache' = cache
               /\ disk' = disk)]_vars

C28_Witness ==
    /\ pc = "returned"
    /\ ~ret.ok
    /\ sel.called
    /\ Len(sel.files) > 0
    /\ sel.latest = NoFile

\* C30: a call of install_mod on an archive and a target that holds a non-empty directory of the
\* archive's base name returns success at once when force is false, extracting
\* nothing and leaving the target as it is; when force is true it goes on to
\* extract the archive.
C30_UpToDateGuard ==
    [][(/\ inst.at \in {"idle", "returned"}
        /\ inst' # inst
        /\ inst.archive.isfile
        /\ BaseName \in DOMAIN inst.target
        /\ inst.target[BaseName] = "dir") =>
           IF inst'.force
           THEN inst'.at = "extract_mod" /\ inst'.results = inst.results
           ELSE /\ inst'.at = "returned"
                /\ inst'.results = Append(inst.results, TRUE)
                /\ inst'.work = Append(inst.work, 0)
                /\ inst'.tmp = "none"
                /\ inst'.target = inst.target]_vars

C30_Witness ==
    /\ inst.at = "returned"
    /\ ~inst.force
    /\ BaseName \in DOMAIN inst.target
    /\ inst.target[BaseName] = "dir"
    /\ Len(inst.results) >= 1
    /\ inst.results[Len(inst.results)]
    /\ inst.work[Len(inst.work)] = 0

\* C33: when download_file returns an existing file as reused, no attempt of the
\* call has failed before: the file was at the target when the call started, and
\* is not one that a failed attempt of the call left there.
C33_ReusedFileWasThereBefore ==
    (pc = "fetched" /\ dl.called /\ dl.ok /\ dl.skipped) => (dl.fails = <<>> /\ dl.requests = 0)

\* C34: when process_single_mod has recorded latest_version_id = V for the mod and
\* returns a path, the file at that path was fetched as version V; it is not the
\* file of another version.
C34_RecordedVersionIsOnDisk ==
    (pc = "returned" /\ ret.ok /\ ret.path # NoPath) =>
        /\ isfile(ret.path)
        /\ fs[ret.path].ver = CacheGet(cache, item.mod).latest_version_id

\* C35: an archive of the download directory that process_single_mod reused in
\* install mode is still there after the step that follows its return: the install
\* step and its cleanup do not remove it.
C35_ReusedArchiveSurvivesInstall ==
    [][(/\ pc = "returned"
        /\ item.install
        /\ ret.ok
        /\ ret.skipped
        /\ ret.path # NoPath
        /\ ret.path[1] = "downloads"
        /\ isfile(ret.path)) => ret.path \in DOMAIN fs']_vars

C31_InvalidInputsFail ==
    /\ []((~inst.archive.isfile \/ ~inst.isdir \/ ~inst.archive.zip) =>
             \A k \in DOMAIN inst.results : ~inst.results[k])
    /\ [][(~inst.archive.isfile \/ ~inst.isdir \/ ~inst.archive.zip) =>
             inst'.target = inst.target]_vars

\* C36: the path that download_file writes and removes in a fetch without --install
\* lies directly inside the download directory, whatever filename the file object
\* declares.
C36_TargetInsideDownloadDir ==
    info.target \notin {NoText, <<>>} =>
        /\ Len(info.target) >= 3
        /\ info.target[1] = "downloads"
        /\ info.target[2] = "/"
        /\ \A i \in 3..Len(info.target) : info.target[i] # "/"
====
